---- MODULE Spec2Model ----
(***************************************************************************)
(* State-machine model of src/openid_middleware.rs: the OpenID Connect     *)
(* middleware (OpenIdMiddleware::call), the /auth_callback handler         *)
(* (auth_endpoint), the /logout handler (logout_endpoint), the AuthError   *)
(* response mapping and the two request extractors (Authenticated,         *)
(* MaybeAuthenticated), and a browser that holds the cookies the responses *)
(* set and follows their redirects.                                        *)
(*                                                                         *)
(* Each request is one task.  A task suspends at the .await points of the  *)
(* source (user_info, get_token, verify_id_token, the inner service), so   *)
(* each handler is cut into one action per segment between suspensions and *)
(* the segments of different requests interleave freely.  The first        *)
(* segment of a handler takes the request as its input.                    *)
(*                                                                         *)
(* The OpenID client (crate::openid::OpenID) is not part of the file; its  *)
(* operations are modelled from the interface the specification gives.     *)
(***************************************************************************)
EXTENDS Integers, Sequences, FiniteSets

\* ------------------------------------------------------------------ bounds

\* Number of requests (tasks) the server processes, concurrently.
MaxReq == 2

Rid == 1..MaxReq

\* Number of requests one browser sends in the specifications of the login
\* flow: the first visit, the callback and the visit it redirects to.
MaxFlowReq == 3

FlowRid == 1..MaxFlowReq

\* ------------------------------------------------------------ input domains

\* The absent nonce cookie (req.cookie(..) = None); nonces are positive.
NoNonce == 0
\* Nonce cookies a client may present on the callback, and the nonces of the
\* authorization requests the provider has issued codes for.
NonceChoices == {1, 2}
CodeNonces == {1}

Paths == {"/a", "/b"}
NoToken == "none"
Tokens == {"t1", "t2"}
NoUser == "nobody"
ProviderErrors == {"invalid_grant", "server_error"}
NoRefresh == "none"

\* -------------------------------------------------------------- cookie names

\* enum AuthCookies and its Display implementation.
AuthCookies == [AccessToken |-> "access_token", IdToken |-> "id_token",
                RefreshToken |-> "refresh_token", UserInfo |-> "user_info",
                Nonce |-> "nonce"]

\* ------------------------------------------------------------ value shapes

NoUrl == [kind |-> "none", path |-> "", nonce |-> NoNonce]
LocalUrl(p) == [kind |-> "local", path |-> p, nonce |-> NoNonce]

NoIdToken == [nonce |-> NoNonce, sub |-> NoUser, sig |-> FALSE]

\* A Set-Cookie of a response; unset is the cookie not being in the response.
Unset(v) == [set |-> FALSE, value |-> v, path |-> "", secure |-> FALSE, same_site |-> ""]
NoCookies == [access_token |-> Unset(NoToken), id_token |-> Unset(<<>>),
              refresh_token |-> Unset(NoRefresh), user_info |-> Unset(<<>>),
              nonce |-> Unset(NoNonce)]

NoResponse == [status |-> 0, location |-> NoUrl, cookies |-> NoCookies, body |-> ""]

\* enum AuthError { NotAuthenticated { issuer_url, nonce } }, and the other
\* actix errors the file raises, in one shape.
NoError == [kind |-> "none", issuer_url |-> NoUrl, nonce |-> NoNonce, text |-> ""]
NotAuthenticated(url, n) ==
    [kind |-> "NotAuthenticated", issuer_url |-> url, nonce |-> n, text |-> "Not authenticated"]

\* Option<Result<AuthenticatedUser, AuthError>> as stored in the request extensions.
NoOutcome == [tag |-> "None", user |-> NoUser, err |-> NoError]
OkOutcome(u) == [tag |-> "Ok", user |-> u, err |-> NoError]
ErrOutcome(e) == [tag |-> "Err", user |-> NoUser, err |-> e]

\* Result of a provider call not made yet.
NoResult == [tag |-> "None", user |-> NoUser]
NoTokens == [tag |-> "None", access_token |-> NoToken, id_token |-> NoIdToken,
             refresh_token |-> NoRefresh, err |-> ""]

\* ------------------------------------------------- OpenID client (interface)

\* OpenID::get_authorization_url(path): the authorization URL carries the return
\* path as `state` and the nonce n generated for it; n is fresh (see FreshNonce).
get_authorization_url(path, n) ==
    [url |-> [kind |-> "authorize", path |-> path, nonce |-> n], nonce |-> n]

\* The identity the provider holds for an access token.
ClaimsOf(token) == IF token = "t1" THEN "u1" ELSE "u2"

\* OpenID::user_info(token): the claims the provider holds for the token, or a
\* provider error (the token has expired or was revoked, the provider is failing).
UserInfoResults(token) ==
    {[tag |-> "Err", user |-> NoUser], [tag |-> "Ok", user |-> ClaimsOf(token)]}

\* OpenID::get_token(code): code 0 is a code the provider never issued; code n > 0
\* was issued for the authorization request that carried nonce n, so the ID token
\* it buys is bound to n.  The provider may reject any code, may or may not
\* return a refresh token, and may return an ID token that does not verify.
GetTokenResults(code) ==
    {[tag |-> "Err", access_token |-> NoToken, id_token |-> NoIdToken,
      refresh_token |-> NoRefresh, err |-> e] : e \in ProviderErrors} \cup
    (IF code = 0 THEN {} ELSE
       {[tag |-> "Ok", access_token |-> "t1",
         id_token |-> [nonce |-> code, sub |-> ClaimsOf("t1"), sig |-> sg],
         refresh_token |-> rt, err |-> ""] :
           rt \in {NoRefresh, "rt"}, sg \in BOOLEAN})

\* OpenID::verify_id_token(id_token, nonce): the claims of the token when its
\* signature checks and it is bound to the expected nonce.
verify_id_token(id_token, nonce) ==
    IF id_token.sig /\ id_token.nonce = nonce
    THEN [tag |-> "Ok", user |-> id_token.sub]
    ELSE [tag |-> "Err", user |-> NoUser]

\* ------------------------------------------------------------ error mapping

\* AuthError::status_code
status_code(e) == 302

\* Mutant: the nonce cookie is built without .path("/").
error_response_without_path(e) ==
    [status |-> status_code(e),
     location |-> e.issuer_url,
     cookies |-> [NoCookies EXCEPT !.nonce =
                     [set |-> TRUE, value |-> e.nonce, path |-> "",
                      secure |-> FALSE, same_site |-> ""]],
     body |-> e.text]

\* Mutant: the nonce cookie carries a value other than the nonce of the URL.
error_response_constant_nonce(e) ==
    [status |-> status_code(e),
     location |-> e.issuer_url,
     cookies |-> [NoCookies EXCEPT !.nonce =
                     [set |-> TRUE, value |-> 1, path |-> "/",
                      secure |-> FALSE, same_site |-> ""]],
     body |-> e.text]

\* AuthError::error_response: the status above, the Display text as body, the
\* nonce cookie with path "/", and the Location header.
error_response(e) ==
    [status |-> status_code(e),
     location |-> e.issuer_url,
     cookies |-> [NoCookies EXCEPT !.nonce =
                     [set |-> TRUE, value |-> e.nonce, path |-> "/",
                      secure |-> FALSE, same_site |-> ""]],
     body |-> e.text]

\* actix_web::error::ErrorUnauthorized / ErrorBadRequest / ErrorInternalServerError
ErrorUnauthorized(text) ==
    [kind |-> "Unauthorized", issuer_url |-> NoUrl, nonce |-> NoNonce, text |-> text]
ErrorBadRequest(text) ==
    [kind |-> "BadRequest", issuer_url |-> NoUrl, nonce |-> NoNonce, text |-> text]
ErrorInternalServerError(text) ==
    [kind |-> "InternalServerError", issuer_url |-> NoUrl, nonce |-> NoNonce, text |-> text]

\* The response actix renders for an Err a service or extractor returns: the
\* error's own ResponseError implementation.
ResponseOf(err) ==
    IF err.kind = "NotAuthenticated" THEN error_response(err)
    ELSE [status |-> (IF err.kind = "Unauthorized" THEN 401
                      ELSE IF err.kind = "BadRequest" THEN 400 ELSE 500),
          location |-> NoUrl, cookies |-> NoCookies, body |-> err.text]

\* -------------------------------------------------------------------- state

\* reqs[r] is request r with its task: what the client sent (route, path,
\* cookies, query), what the installation decides for it (mw: the middleware
\* wraps the route; should_auth: the value of should_auth(&req); accessor: the
\* extractor of the handler routing picked), the task's position pc, the
\* request extensions ext, the response resp, and a log of the collaborator
\* calls the task made and of what the handler saw.
\*
\* client is one browser: the cookies it holds (jar) and the responses it has
\* received, in order (seen).  A request the browser sent records how many
\* responses the browser had received by then (sent_after) and the response
\* whose redirect it follows (via, 0 when it follows none).
VARIABLES reqs, client

vars == <<reqs, client>>

Idle ==
    [route |-> "", mw |-> FALSE, should_auth |-> FALSE, accessor |-> "",
     path |-> "", c_access |-> NoToken, c_nonce |-> NoNonce,
     c_id_token |-> <<>>, c_user_info |-> <<>>, c_refresh |-> NoRefresh,
     q_code |-> 0, q_state |-> "",
     pc |-> "idle", ext |-> NoOutcome, resp |-> NoResponse,
     built |-> <<>>, ui |-> NoResult, n_user_info |-> 0,
     inner_calls |-> 0, extracted |-> "", identity |-> NoUser, try_into |-> NoOutcome,
     tkn |-> NoTokens, n_get_token |-> 0, verify_nonce |-> <<>>, claim |-> NoResult,
     n_logout_uri |-> 0, sent_after |-> 0, via |-> 0]

NoClient == [jar |-> [access_token |-> NoToken, nonce |-> NoNonce], seen |-> <<>>]

Init == reqs = [r \in Rid |-> Idle] /\ client = NoClient

\* Requests are numbered in arrival order.
NextSlot(r) ==
    reqs[r].pc = "idle" /\ \A q \in DOMAIN reqs : q < r => reqs[q].pc # "idle"

Accessors == {"Authenticated", "MaybeAuthenticated"}

\* The request an application route receives.
AppRequest(m, sa, p, tok) ==
    [Idle EXCEPT !.route = "app", !.mw = m, !.should_auth = sa, !.path = p,
                 !.c_access = tok]

\* The request /auth_callback receives: query code and state, cookie nonce.
CallbackRequest(n, c, st) ==
    [Idle EXCEPT !.route = "callback", !.path = "/auth_callback",
                 !.c_nonce = n, !.q_code = c, !.q_state = st]

\* ---------------------------------------------------------------- middleware

\* Challenges one call of the middleware may build (lines 137/139, 145 and 148).
NonceStride == 2

\* The nonce of the k-th challenge request r builds: a value no other challenge has.
FreshNonce(r, k) == NonceStride * (r - 1) + k

\* Mutant: the challenge is built for the root, not for the request's path.
redirect_to_auth_root(path, n) ==
    LET url == get_authorization_url("/", n)
    IN  NotAuthenticated(url.url, url.nonce)

\* The closure redirect_to_auth: one call of get_authorization_url for the path
\* of the request, made into AuthError::NotAuthenticated.
redirect_to_auth(path, n) ==
    LET url == get_authorization_url(path, n)
    IN  NotAuthenticated(url.url, url.nonce)

\* Mutant: the outcome is not consulted before the redirect.
MustRedirect_ignoring_outcome(auth_user, should_auth) == should_auth

\* Lines 147 and 135: the pipeline is cut short when the outcome is an error
\* and the route requires authentication.
MustRedirect(auth_user, should_auth) == auth_user.tag = "Err" /\ should_auth

\* Mutant: the inner service is called before anything is attached.
AttachAndContinue_without_insert(q, auth_user) ==
    [q EXCEPT !.inner_calls = @ + 1, !.pc = "inner"]

\* req.extensions_mut().insert(auth_user); srv.call(req)
AttachAndContinue(q, auth_user) ==
    [q EXCEPT !.ext = auth_user, !.inner_calls = @ + 1, !.pc = "inner"]

\* return Err(e.into()): the task ends and actix renders the error.
FailWith(q, e) == [q EXCEPT !.resp = ResponseOf(e), !.pc = "done"]

\* Mutant: the identity an earlier request obtained for the same token is
\* reused, and the provider is not asked again.
MwBegin_cached(r, q) ==
    /\ NextSlot(r)
    /\ LET hits == {p \in DOMAIN reqs : /\ reqs[p].c_access = q.c_access
                                        /\ reqs[p].ui.tag = "Ok"}
           e == redirect_to_auth(q.path, FreshNonce(r, 1))
           q1 == [q EXCEPT !.built = Append(@, e)]
       IN  reqs' = [reqs EXCEPT ![r] =
              IF q.c_access = NoToken
              THEN IF q.should_auth THEN FailWith(q1, e)
                   ELSE AttachAndContinue(q1, ErrOutcome(e))
              ELSE IF hits # {}
              THEN AttachAndContinue(q, OkOutcome(ClaimsOf(q.c_access)))
              ELSE [q EXCEPT !.n_user_info = @ + 1, !.pc = "await_user_info"]]

\* OpenIdMiddleware::call(req) up to its first suspension, for the request q
\* in slot r: the access_token cookie is read; without it the challenge is
\* built and either returned or attached; with it the user-info lookup is issued.
MwBegin(r, q) ==
    /\ NextSlot(r)
    /\ IF q.c_access = NoToken
       THEN LET e == redirect_to_auth(q.path, FreshNonce(r, 1))
                q1 == [q EXCEPT !.built = Append(@, e)]
            IN  reqs' = [reqs EXCEPT ![r] =
                   IF q.should_auth THEN FailWith(q1, e)
                   ELSE AttachAndContinue(q1, ErrOutcome(e))]
       ELSE reqs' = [reqs EXCEPT ![r] =
                   [q EXCEPT !.n_user_info = @ + 1, !.pc = "await_user_info"]]

\* A request of any client to a route the middleware wraps.
MwCall(r) ==
    /\ NextSlot(r)
    /\ \E sa \in BOOLEAN, p \in Paths, tok \in {NoToken} \cup Tokens :
          MwBegin(r, AppRequest(TRUE, sa, p, tok))

\* The cookies of a request the middleware does not read: none of them, or
\* values a client forged (the identity u2 in user_info and id_token, a refresh
\* token and a nonce).
CookieSets ==
    {[id_token |-> <<>>, user_info |-> <<>>, refresh_token |-> NoRefresh,
      nonce |-> NoNonce],
     [id_token |-> <<"jwt", [nonce |-> 1, sub |-> "u2", sig |-> FALSE]>>,
      user_info |-> <<"json", "u2">>, refresh_token |-> "rt", nonce |-> 1]}

\* A request of any client to a route the middleware wraps, with the other
\* cookies of the session next to access_token.
MwCallWithCookies(r) ==
    /\ NextSlot(r)
    /\ \E sa \in BOOLEAN, p \in Paths, tok \in {NoToken} \cup Tokens, ck \in CookieSets :
          MwBegin(r, [AppRequest(TRUE, sa, p, tok) EXCEPT
                         !.c_id_token = ck.id_token, !.c_user_info = ck.user_info,
                         !.c_refresh = ck.refresh_token, !.c_nonce = ck.nonce])

\* Line 143: the token handed to user_info is the value of the access_token cookie.
UserInfoArg(q) == q.c_access

\* Mutant: when the lookup fails, the identity in the user_info cookie is
\* attached as the outcome.
MwUserInfoReturn_trusting_cookie(r) ==
    LET q == reqs[r] IN
    /\ q.pc = "await_user_info"
    /\ \E res \in UserInfoResults(UserInfoArg(q)) :
         LET e1 == redirect_to_auth(q.path, FreshNonce(r, 1))
             auth_user == IF res.tag = "Ok" THEN OkOutcome(res.user)
                          ELSE IF q.c_user_info # <<>> THEN OkOutcome(q.c_user_info[2])
                          ELSE ErrOutcome(e1)
             q1 == [q EXCEPT !.ui = res,
                             !.built = IF auth_user.tag = "Ok" THEN @ ELSE Append(@, e1)]
             e2 == redirect_to_auth(q.path, FreshNonce(r, 2))
         IN  reqs' = [reqs EXCEPT ![r] =
                IF auth_user.tag = "Err" /\ q.should_auth
                THEN FailWith([q1 EXCEPT !.built = Append(@, e2)], e2)
                ELSE AttachAndContinue(q1, auth_user)]

\* OpenIdMiddleware::call resumed with the result of user_info: an error is
\* mapped to a challenge; when the route requires authentication a second
\* challenge is built and returned, otherwise the outcome is attached.
MwUserInfoReturn(r) ==
    LET q == reqs[r] IN
    /\ q.pc = "await_user_info"
    /\ \E res \in UserInfoResults(UserInfoArg(q)) :
         LET e1 == redirect_to_auth(q.path, FreshNonce(r, 1))
             auth_user == IF res.tag = "Ok" THEN OkOutcome(res.user) ELSE ErrOutcome(e1)
             q1 == [q EXCEPT !.ui = res,
                             !.built = IF res.tag = "Ok" THEN @ ELSE Append(@, e1)]
             e2 == redirect_to_auth(q.path, FreshNonce(r, 2))
         IN  reqs' = [reqs EXCEPT ![r] =
                IF MustRedirect(auth_user, q.should_auth)
                THEN FailWith([q1 EXCEPT !.built = Append(@, e2)], e2)
                ELSE AttachAndContinue(q1, auth_user)]

\* ---------------------------------------------------------------- extractors

\* Result<Self, Error> of an extractor: v is the value the extractor wraps.
ExtractOk(v) == [tag |-> "Ok", v |-> v, err |-> NoError]
ExtractErr(e) == [tag |-> "Err", v |-> NoOutcome, err |-> e]

\* Mutant: any attached outcome is taken for an identity.
Authenticated_from_request_any(value) ==
    IF value.tag # "None" THEN ExtractOk(value)
    ELSE ExtractErr(ErrorUnauthorized("Unauthorized"))

\* Mutant: the stored challenge is dropped for the generic error.
Authenticated_from_request_generic(value) ==
    IF value.tag = "Ok" THEN ExtractOk(value)
    ELSE ExtractErr(ErrorUnauthorized("Unauthorized"))

\* impl FromRequest for Authenticated: value is the extensions entry.
Authenticated_from_request(value) ==
    IF value.tag = "Ok" THEN ExtractOk(value)
    ELSE IF value.tag = "Err" THEN ExtractErr(value.err)
    ELSE ExtractErr(ErrorUnauthorized("Unauthorized"))

\* impl Deref for Authenticated
Deref(a) == a.user

\* Mutant: the extractor fails on ChallengeRequired as the mandatory one does.
MaybeAuthenticated_from_request_strict(value) ==
    IF value.tag = "Ok" THEN ExtractOk(value)
    ELSE IF value.tag = "Err" THEN ExtractErr(value.err)
    ELSE ExtractErr(ErrorUnauthorized("Unauthorized"))

\* Mutant: the extractor succeeds with whatever the extensions hold.
MaybeAuthenticated_from_request_total(value) == ExtractOk(value)

\* impl FromRequest for MaybeAuthenticated
MaybeAuthenticated_from_request(value) ==
    IF value.tag # "None" THEN ExtractOk(value)
    ELSE ExtractErr(ErrorUnauthorized("Unauthorized"))

\* impl Into<Option<&AuthenticatedUser>> for &MaybeAuthenticated (NoUser is None)
IntoOption(m) == IF m.tag = "Ok" THEN m.user ELSE NoUser

\* impl TryInto<&AuthenticatedUser> for &MaybeAuthenticated
TryInto(m) == IF m.tag = "Ok" THEN OkOutcome(m.user) ELSE ErrOutcome(m.err)

\* What the route's handler answers once its extractor has succeeded.
HandlerOk == [NoResponse EXCEPT !.status = 200, !.body = "ok"]

\* The route's handler, taking the extractor acc: the extractor reads the
\* request extensions; when it fails actix renders its error and the handler
\* body does not run, otherwise the handler runs and projects the value.
Serve(q, acc) ==
    LET value == q.ext
        x == IF acc = "Authenticated" THEN Authenticated_from_request(value)
             ELSE MaybeAuthenticated_from_request(value)
    IN  IF x.tag = "Err"
        THEN [q EXCEPT !.accessor = acc, !.extracted = "Err",
                       !.resp = ResponseOf(x.err), !.pc = "done"]
        ELSE [q EXCEPT !.accessor = acc, !.extracted = "Ok",
                       !.identity = IF acc = "Authenticated" THEN Deref(x.v)
                                    ELSE IntoOption(x.v),
                       !.try_into = IF acc = "Authenticated" THEN NoOutcome
                                    ELSE TryInto(x.v),
                       !.resp = HandlerOk, !.pc = "done"]

\* The inner service the middleware called: routing picks the handler.
InnerService(r) ==
    /\ reqs[r].pc = "inner"
    /\ \E acc \in Accessors : reqs' = [reqs EXCEPT ![r] = Serve(reqs[r], acc)]

\* A request to a route the middleware does not wrap: the handler is reached
\* with nothing in the request extensions.
UnwrappedRoute(r) ==
    /\ NextSlot(r)
    /\ \E p \in Paths, tok \in {NoToken} \cup Tokens, acc \in Accessors :
         reqs' = [reqs EXCEPT ![r] = Serve(AppRequest(FALSE, FALSE, p, tok), acc)]

\* ------------------------------------------------------------------ callback

\* serde_json::to_string(claim)
ToJson(claim) == <<"json", claim>>

\* IdToken's to_string: the compact serialization of the token.
IdTokenToString(t) == <<"jwt", t>>

\* Cookie::build(name, value).same_site(SameSite::Lax)[.secure(true)].finish()
SessionCookie(value, secure) ==
    [set |-> TRUE, value |-> value, path |-> "", secure |-> secure, same_site |-> "Lax"]

\* Mutant: the refresh_token cookie is set whether or not one was returned.
CallbackSuccess_always_refresh(tkn, claim, state) ==
    [status |-> 302,
     location |-> LocalUrl(state),
     cookies |-> [NoCookies EXCEPT
                   !.access_token = SessionCookie(tkn.access_token, TRUE),
                   !.user_info = SessionCookie(ToJson(claim), FALSE),
                   !.id_token = SessionCookie(IdTokenToString(tkn.id_token), TRUE),
                   !.refresh_token = SessionCookie(tkn.refresh_token, TRUE)],
     body |-> ""]

\* Mutant: the user_info cookie is left out of the success response.
CallbackSuccess_without_user_info(tkn, claim, state) ==
    [status |-> 302,
     location |-> LocalUrl(state),
     cookies |-> [NoCookies EXCEPT
                   !.access_token = SessionCookie(tkn.access_token, TRUE),
                   !.id_token = SessionCookie(IdTokenToString(tkn.id_token), TRUE)],
     body |-> ""]

\* Mutant: the access_token cookie is left out of the success response.
CallbackSuccess_without_access_token(tkn, claim, state) ==
    [status |-> 302,
     location |-> LocalUrl(state),
     cookies |-> [NoCookies EXCEPT
                   !.user_info = SessionCookie(ToJson(claim), FALSE),
                   !.id_token = SessionCookie(IdTokenToString(tkn.id_token), TRUE)],
     body |-> ""]

\* Lines 248-291: the redirect to `state` with the session cookies; the
\* refresh_token cookie only when the exchange returned a refresh token.
CallbackSuccess(tkn, claim, state) ==
    LET base == [NoCookies EXCEPT
                   !.access_token = SessionCookie(tkn.access_token, TRUE),
                   !.user_info = SessionCookie(ToJson(claim), FALSE),
                   !.id_token = SessionCookie(IdTokenToString(tkn.id_token), TRUE)]
    IN  [status |-> 302,
         location |-> LocalUrl(state),
         cookies |-> IF tkn.refresh_token # NoRefresh
                     THEN [base EXCEPT !.refresh_token =
                              SessionCookie(tkn.refresh_token, TRUE)]
                     ELSE base,
         body |-> ""]

\* Mutant: the provider's rejection is raised as a server error.
ExchangeFailed_as_server_error(e) == [NoResponse EXCEPT !.status = 500, !.body = e]

\* Line 238: HttpResponse::BadRequest().body(e.to_string())
ExchangeFailed(e) == [NoResponse EXCEPT !.status = 400, !.body = e]

\* Mutant: verification is asked to expect the nonce the token itself carries.
VerifyArg_from_token(q, tkn) == tkn.id_token.nonce

\* The nonce handed to verify_id_token with the exchanged tokens: the value of
\* the nonce cookie (lines 228, 241).
VerifyArg(q, tkn) == q.c_nonce

\* Mutant: the code is exchanged without looking for the nonce cookie.
CallbackStart_unchecked(r) ==
    /\ NextSlot(r)
    /\ \E n \in {NoNonce} \cup NonceChoices, c \in {0} \cup CodeNonces, st \in Paths :
         reqs' = [reqs EXCEPT ![r] =
            [CallbackRequest(n, c, st) EXCEPT !.n_get_token = @ + 1,
                                              !.pc = "await_token"]]

\* auth_endpoint(req, .., query) up to its first suspension, for the request q
\* in slot r: without the nonce cookie the request fails with 400; with it the
\* code is sent to the provider.
CallbackBegin(r, q) ==
    /\ NextSlot(r)
    /\ reqs' = [reqs EXCEPT ![r] =
          IF q.c_nonce = NoNonce
          THEN FailWith(q, ErrorBadRequest("No nonce"))
          ELSE [q EXCEPT !.n_get_token = @ + 1, !.pc = "await_token"]]

\* A callback request of any client.
CallbackStart(r) ==
    /\ NextSlot(r)
    /\ \E n \in {NoNonce} \cup NonceChoices, c \in {0} \cup CodeNonces, st \in Paths :
          CallbackBegin(r, CallbackRequest(n, c, st))

\* auth_endpoint resumed with the result of get_token: a provider error is
\* answered with 400 and its text; otherwise ID-token verification is issued.
CallbackTokenReturn(r) ==
    LET q == reqs[r] IN
    /\ q.pc = "await_token"
    /\ \E res \in GetTokenResults(q.q_code) :
         reqs' = [reqs EXCEPT ![r] =
            IF res.tag = "Err"
            THEN [q EXCEPT !.tkn = res, !.resp = ExchangeFailed(res.err), !.pc = "done"]
            ELSE [q EXCEPT !.tkn = res, !.verify_nonce = Append(@, VerifyArg(q, res)),
                           !.pc = "await_verify"]]

\* auth_endpoint resumed with the result of verify_id_token: 500 when it
\* failed, the success response otherwise.
CallbackVerifyReturn(r) ==
    LET q == reqs[r]
        res == verify_id_token(q.tkn.id_token, q.verify_nonce[Len(q.verify_nonce)])
    IN
    /\ q.pc = "await_verify"
    /\ reqs' = [reqs EXCEPT ![r] =
          IF res.tag = "Err"
          THEN FailWith([q EXCEPT !.claim = res],
                        ErrorInternalServerError("invalid id token"))
          ELSE [q EXCEPT !.claim = res,
                         !.resp = CallbackSuccess(q.tkn, res.user, q.q_state),
                         !.pc = "done"]]

\* -------------------------------------------------------------------- logout

\* ID tokens a client may hold in its id_token cookie.
IdTokens == {[nonce |-> 1, sub |-> "u1", sig |-> TRUE],
             [nonce |-> 2, sub |-> "u2", sig |-> TRUE]}

\* A cookie value that is not the serialization of an ID token.
Garbage == <<"garbage">>

\* The request /logout receives: cookie id_token (<<>> when absent).
LogoutRequest(idt) ==
    [Idle EXCEPT !.route = "logout", !.path = "/logout", !.c_id_token = idt]

\* IdToken::from_str: the token a serialization produced by IdTokenToString
\* stands for; any other text does not parse.
IdTokenFromStr(text) ==
    IF Len(text) = 2 THEN [tag |-> "Ok", t |-> text[2]]
    ELSE [tag |-> "Err", t |-> NoIdToken]

\* OpenID::get_logout_uri(id_token): the provider's end-session URL, carrying
\* the token as its hint.
get_logout_uri(t) == [kind |-> "logout", path |-> t.sub, nonce |-> t.nonce]

\* logout_endpoint(req, ..): without the id_token cookie the request fails
\* with 400; the cookie's value is parsed and unwrapped, so the task panics
\* and the connection is closed without a response when it does not parse;
\* otherwise the response is 302 to the logout URI, with no cookies.
logout_endpoint(q) ==
    IF q.c_id_token = <<>>
    THEN FailWith(q, ErrorBadRequest("missing id token"))
    ELSE LET parsed == IdTokenFromStr(q.c_id_token) IN
         IF parsed.tag = "Err"
         THEN [q EXCEPT !.pc = "panicked"]
         ELSE [q EXCEPT !.n_logout_uri = @ + 1,
                        !.resp = [NoResponse EXCEPT
                                    !.status = 302,
                                    !.location = get_logout_uri(parsed.t)],
                        !.pc = "done"]

\* A logout request of any client; the handler has no suspension.
Logout(r) ==
    /\ NextSlot(r)
    /\ \E idt \in {<<>>, Garbage} \cup {IdTokenToString(t) : t \in IdTokens} :
         reqs' = [reqs EXCEPT ![r] = logout_endpoint(LogoutRequest(idt))]

\* ---------------------------------------------------------------- login flow

\* The responses the browser has received.
Seen == {client.seen[i] : i \in 1..Len(client.seen)}

\* should_auth of the installation the browser talks to: /a requires
\* authentication, the other routes are optional.
should_auth(p) == p = "/a"

\* The request the browser sends to an application route: it carries the
\* cookies of the jar.
BrowserRequest(p, r) ==
    [AppRequest(TRUE, should_auth(p), p, client.jar.access_token) EXCEPT
        !.c_nonce = client.jar.nonce, !.sent_after = Len(client.seen), !.via = r]

\* The request the browser sends to /auth_callback after the provider
\* answered the authorization request url: the code the provider issued for
\* this authorization request (and so for its nonce), the state of the request
\* unchanged, and the nonce cookie of the jar.
BrowserCallback(url, r) ==
    [CallbackRequest(client.jar.nonce, url.nonce, url.path) EXCEPT
        !.sent_after = Len(client.seen), !.via = r]

\* The browser opens a route the middleware wraps.
ClientVisit(s) ==
    /\ NextSlot(s)
    /\ \E p \in Paths : MwBegin(s, BrowserRequest(p, 0))
    /\ UNCHANGED client

\* The browser follows the redirect of response r in a new request s: an
\* authorization URL takes it to the provider and back to /auth_callback, a
\* local URL to the application route.
FollowRedirect(s, r) ==
    /\ NextSlot(s)
    /\ r \in Seen
    /\ reqs[r].resp.status = 302
    /\ LET url == reqs[r].resp.location IN
       \/ url.kind = "authorize" /\ CallbackBegin(s, BrowserCallback(url, r))
       \/ url.kind = "local" /\ MwBegin(s, BrowserRequest(url.path, r))
    /\ UNCHANGED client

\* The browser follows a redirect it received, any number of times.
ClientFollow(s) == \E r \in DOMAIN reqs : FollowRedirect(s, r)

\* The Set-Cookie headers of a response applied to the jar: a cookie of the
\* same name replaces the one held.
StoreCookies(jar, cookies) ==
    [access_token |-> IF cookies.access_token.set THEN cookies.access_token.value
                      ELSE jar.access_token,
     nonce |-> IF cookies.nonce.set THEN cookies.nonce.value ELSE jar.nonce]

\* The response of request r reaches the browser.
ClientReceive(r) ==
    /\ reqs[r].pc = "done"
    /\ r \notin Seen
    /\ client' = [jar |-> StoreCookies(client.jar, reqs[r].resp.cookies),
                  seen |-> Append(client.seen, r)]
    /\ UNCHANGED reqs

\* -------------------------------------------------------------- specification

Next ==
    \E r \in Rid :
       \/ MwCall(r) /\ UNCHANGED client
       \/ MwUserInfoReturn(r) /\ UNCHANGED client
       \/ InnerService(r) /\ UNCHANGED client
       \/ UnwrappedRoute(r) /\ UNCHANGED client
       \/ CallbackStart(r) /\ UNCHANGED client
       \/ CallbackTokenReturn(r) /\ UNCHANGED client
       \/ CallbackVerifyReturn(r) /\ UNCHANGED client

Spec == Init /\ [][Next]_vars

\* Requests to application routes only.
NextMw ==
    \E r \in Rid :
       \/ MwCall(r) /\ UNCHANGED client
       \/ MwUserInfoReturn(r) /\ UNCHANGED client
       \/ InnerService(r) /\ UNCHANGED client
       \/ UnwrappedRoute(r) /\ UNCHANGED client

SpecMw == Init /\ [][NextMw]_vars

\* Requests to /auth_callback only.
NextCb ==
    \E r \in Rid :
       \/ CallbackStart(r) /\ UNCHANGED client
       \/ CallbackTokenReturn(r) /\ UNCHANGED client
       \/ CallbackVerifyReturn(r) /\ UNCHANGED client

SpecCb == Init /\ [][NextCb]_vars

\* Requests through the middleware that carry the whole cookie set of a session.
NextCk ==
    \E r \in Rid :
       \/ MwCallWithCookies(r) /\ UNCHANGED client
       \/ MwUserInfoReturn(r) /\ UNCHANGED client
       \/ InnerService(r) /\ UNCHANGED client

SpecCk == Init /\ [][NextCk]_vars

\* Requests to the two endpoints of the redirect dance, /auth_callback and /logout.
NextEp ==
    \E r \in Rid :
       \/ CallbackStart(r) /\ UNCHANGED client
       \/ CallbackTokenReturn(r) /\ UNCHANGED client
       \/ CallbackVerifyReturn(r) /\ UNCHANGED client
       \/ Logout(r) /\ UNCHANGED client

SpecEp == Init /\ [][NextEp]_vars

\* One browser going through the login flow against the server: it opens
\* routes, receives responses and follows redirects in any order and any
\* number of times, while the server's tasks interleave.
InitFlow == reqs = [r \in FlowRid |-> Idle] /\ client = NoClient

ServerStep(r) ==
    \/ MwUserInfoReturn(r) /\ UNCHANGED client
    \/ InnerService(r) /\ UNCHANGED client
    \/ CallbackTokenReturn(r) /\ UNCHANGED client
    \/ CallbackVerifyReturn(r) /\ UNCHANGED client

NextFlow ==
    \E r \in FlowRid :
       \/ ClientVisit(r)
       \/ ClientFollow(r)
       \/ ClientReceive(r)
       \/ ServerStep(r)

SpecFlow == InitFlow /\ [][NextFlow]_vars

\* One browser that starts without cookies or with the access token of an
\* earlier session, opens one route and from then on only follows redirects,
\* each once.  The tasks of the server are resumed when the provider has
\* answered, responses reach the browser and the browser follows the redirects
\* it receives: every step that stays possible is taken.
InitLive ==
    /\ reqs = [r \in FlowRid |-> Idle]
    /\ \E tok \in {NoToken} \cup Tokens :
          client = [NoClient EXCEPT !.jar.access_token = tok]

LiveVisit(s) ==
    /\ \A r \in FlowRid : reqs[r].pc = "idle"
    /\ ClientVisit(s)

LiveFollow(s) ==
    \E r \in FlowRid :
       /\ \A p \in FlowRid : reqs[p].via # r
       /\ FollowRedirect(s, r)

NextLive ==
    \E r \in FlowRid :
       \/ LiveVisit(r)
       \/ LiveFollow(r)
       \/ ClientReceive(r)
       \/ ServerStep(r)

SpecLive == InitLive /\ [][NextLive]_vars /\ WF_vars(NextLive)

\* --------------------------------------------------------------------- claims

Last(sq) == sq[Len(sq)]

\* Request r went through the middleware and the middleware has decided.
MwDecided(q) == q.route = "app" /\ q.mw /\ q.pc \in {"inner", "done"}

\* The third credential state: access_token cookie present and lookup succeeded.
LookupSucceeded(q) == q.c_access # NoToken /\ q.ui.tag = "Ok"

\* The middleware answered itself: the task ended without a call of the inner service.
ShortCircuited(q) == q.pc = "done" /\ q.inner_calls = 0

\* C1: for every request through the middleware, over the three credential
\* states and both values of requiresAuth, the request is short-circuited with
\* a redirect (and the inner handler not invoked) exactly when requiresAuth
\* holds and the lookup did not succeed; otherwise the inner handler is invoked
\* exactly once with the outcome attached: Authenticated(user) after a
\* successful lookup, ChallengeRequired in the two other credential states.
C1_ShortCircuitIff ==
    \A r \in Rid :
       LET q == reqs[r] IN
       MwDecided(q) =>
          /\ ShortCircuited(q) <=> (q.should_auth /\ ~LookupSucceeded(q))
          /\ ShortCircuited(q) =>
                /\ q.resp.status = 302
                /\ q.ext = NoOutcome
                /\ q.extracted = ""
          /\ ~ShortCircuited(q) =>
                /\ q.inner_calls = 1
                /\ IF LookupSucceeded(q)
                   THEN q.ext = OkOutcome(q.ui.user)
                   ELSE q.ext.tag = "Err" /\ q.ext.err.kind = "NotAuthenticated"

\* A short-circuit after a failed lookup, beside a pass-through with ChallengeRequired.
C1_Witness ==
    \E r, p \in Rid :
       /\ MwDecided(reqs[r]) /\ ShortCircuited(reqs[r]) /\ reqs[r].ui.tag = "Err"
       /\ MwDecided(reqs[p]) /\ reqs[p].inner_calls = 1 /\ reqs[p].ext.tag = "Err"
       /\ reqs[p].pc = "done"

\* The request ended in the middleware's own answer: the route requires
\* authentication and the cookie was absent or its lookup failed.
Challenged(q) ==
    /\ q.route = "app" /\ q.mw /\ q.should_auth /\ q.pc = "done"
    /\ (q.c_access = NoToken \/ q.ui.tag = "Err")

\* C2: every short-circuit response of the middleware is a 302 whose Location is
\* the authorization URL of the challenge built (last) for that request, for
\* that request's path, and which sets the nonce cookie of that challenge with
\* path "/"; the inner handler is not invoked.
C2_ChallengeResponse ==
    \A r \in Rid :
       LET q == reqs[r] IN
       Challenged(q) =>
          /\ q.resp.status = 302
          /\ Len(q.built) >= 1
          /\ q.resp.location = Last(q.built).issuer_url
          /\ q.resp.location.kind = "authorize"
          /\ q.resp.location.path = q.path
          /\ q.resp.cookies.nonce.set
          /\ q.resp.cookies.nonce.path = "/"
          /\ q.resp.cookies.nonce.value = Last(q.built).nonce
          /\ q.inner_calls = 0
          /\ q.extracted = ""

\* Both causes of a short-circuit: no cookie, and a failed lookup.
C2_Witness ==
    \E r, p \in Rid :
       /\ Challenged(reqs[r]) /\ reqs[r].c_access = NoToken
       /\ Challenged(reqs[p]) /\ reqs[p].ui.tag = "Err"

\* C3: a request without the access_token cookie on a route where requiresAuth is
\* false reaches the inner handler; MaybeAuthenticated extracted there projects
\* to None and its identity-or-error projection is the ChallengeRequired error.
C3_OptionalNoIdentity ==
    \A r \in Rid :
       LET q == reqs[r] IN
       (q.route = "app" /\ q.mw /\ ~q.should_auth /\ q.c_access = NoToken
          /\ q.pc \in {"inner", "done"}) =>
          /\ q.inner_calls = 1
          /\ (q.pc = "done" /\ q.accessor = "MaybeAuthenticated") =>
                /\ q.extracted = "Ok"
                /\ q.identity = NoUser
                /\ q.try_into = ErrOutcome(q.built[1])
                /\ q.try_into.err.kind = "NotAuthenticated"

C3_Witness ==
    \E r \in Rid :
       LET q == reqs[r] IN
       /\ q.route = "app" /\ q.mw /\ ~q.should_auth /\ q.c_access = NoToken
       /\ q.pc = "done" /\ q.accessor = "MaybeAuthenticated" /\ q.extracted = "Ok"

\* The mandatory accessor of request r yielded an identity.
YieldedIdentity(q) ==
    q.route = "app" /\ q.accessor = "Authenticated" /\ q.extracted = "Ok"

\* C4: under any interleaving of requests, Authenticated yields an identity for
\* a request only if the middleware attached Authenticated(user) to that very
\* request, and the identity is the claims that the user-info lookup made for
\* the request's own access token returned.
C4_IdentityIsOwnLookup ==
    \A r \in Rid :
       LET q == reqs[r] IN
       YieldedIdentity(q) =>
          /\ q.mw
          /\ q.n_user_info = 1
          /\ q.ui.tag = "Ok"
          /\ q.ext = OkOutcome(q.ui.user)
          /\ q.identity = q.ui.user
          /\ q.identity = ClaimsOf(q.c_access)

\* Request 2 has yielded its identity while request 1, which carries the other
\* token, is suspended in its lookup.
C4_Witness ==
    /\ reqs[1].pc = "await_user_info" /\ reqs[1].c_access = "t1"
    /\ YieldedIdentity(reqs[2]) /\ reqs[2].identity = "u2"

\* The session cookies the callback sets.
SetsSessionCookie(resp) ==
    \/ resp.cookies.access_token.set
    \/ resp.cookies.id_token.set
    \/ resp.cookies.user_info.set
    \/ resp.cookies.refresh_token.set

IsCallback(q) == q.route = "callback"

\* C5: nonce round trip.  In every response that sets the nonce cookie, the
\* cookie's value is the nonce of the challenge whose authorization URL is the
\* Location; the callback hands verify_id_token exactly the nonce cookie the
\* request presented; and a callback whose ID token is bound to another nonce
\* than the presented cookie fails verification and sets no session cookie.
C5_NonceRoundTrip ==
    \A r \in Rid :
       LET q == reqs[r] IN
       /\ q.resp.cookies.nonce.set =>
             /\ q.resp.location.kind = "authorize"
             /\ q.resp.location.nonce = q.resp.cookies.nonce.value
             /\ \E k \in 1..Len(q.built) :
                   /\ q.built[k].issuer_url = q.resp.location
                   /\ q.built[k].nonce = q.resp.cookies.nonce.value
       /\ (IsCallback(q) /\ q.verify_nonce # <<>>) =>
             /\ q.verify_nonce = <<q.c_nonce>>
             /\ q.c_nonce # NoNonce
       /\ (IsCallback(q) /\ q.pc = "done" /\ q.tkn.tag = "Ok"
             /\ q.tkn.id_token.nonce # q.c_nonce) =>
             /\ q.claim.tag = "Err"
             /\ q.resp.status = 500
             /\ ~SetsSessionCookie(q.resp)

\* A challenge response, beside a callback that presented nonce 2 with a code
\* whose well-signed ID token is bound to nonce 1.
C5_Witness ==
    \E r, p \in Rid :
       LET q == reqs[r] IN
       /\ IsCallback(q) /\ q.pc = "done" /\ q.c_nonce = 2
       /\ q.tkn.tag = "Ok" /\ q.tkn.id_token.nonce = 1 /\ q.tkn.id_token.sig
       /\ q.verify_nonce = <<2>>
       /\ reqs[p].pc = "done" /\ reqs[p].resp.cookies.nonce.set

\* C6: a callback request without the nonce cookie is answered 400, and neither
\* the code exchange nor ID-token verification is invoked for it.
C6_NoNonceNoExchange ==
    \A r \in Rid :
       LET q == reqs[r] IN
       (IsCallback(q) /\ q.c_nonce = NoNonce) =>
          /\ q.n_get_token = 0
          /\ q.verify_nonce = <<>>
          /\ q.pc = "done"
          /\ q.resp.status = 400
          /\ ~SetsSessionCookie(q.resp)

\* Without the nonce cookie, with a code the provider would accept.
C6_Witness ==
    \E r \in Rid :
       LET q == reqs[r] IN
       IsCallback(q) /\ q.c_nonce = NoNonce /\ q.q_code # 0 /\ q.pc = "done"

\* The callback's exchange and its verification both succeeded.
CallbackSucceeded(q) ==
    IsCallback(q) /\ q.pc = "done" /\ q.tkn.tag = "Ok" /\ q.claim.tag = "Ok"

\* C7: a callback whose exchange and verification succeed answers 302 with
\* Location exactly `state`, sets access_token, id_token and user_info from
\* that exchange, and sets refresh_token exactly when the exchange returned one.
C7_SuccessResponse ==
    \A r \in Rid :
       LET q == reqs[r]
           c == q.resp.cookies
       IN
       CallbackSucceeded(q) =>
          /\ q.resp.status = 302
          /\ q.resp.location = LocalUrl(q.q_state)
          /\ c.access_token.set /\ c.access_token.value = q.tkn.access_token
          /\ c.id_token.set /\ c.id_token.value = IdTokenToString(q.tkn.id_token)
          /\ c.user_info.set /\ c.user_info.value = ToJson(q.claim.user)
          /\ c.refresh_token.set <=> (q.tkn.refresh_token # NoRefresh)
          /\ c.refresh_token.set => c.refresh_token.value = q.tkn.refresh_token

\* A success with a refresh token beside a success without one.
C7_Witness ==
    \E r, p \in Rid :
       /\ CallbackSucceeded(reqs[r]) /\ reqs[r].tkn.refresh_token # NoRefresh
       /\ CallbackSucceeded(reqs[p]) /\ reqs[p].tkn.refresh_token = NoRefresh
       /\ reqs[r].q_state # reqs[p].q_state

\* C8: callback failure mapping.  With the nonce cookie present and the code
\* rejected, the answer is 400 with the provider's error text and verification
\* is not invoked; with the exchange done and verification failed it is 500.
\* Missing nonce, rejected code, failed verification are checked in that order.
C8_FailureMapping ==
    \A r \in Rid :
       LET q == reqs[r] IN
       (IsCallback(q) /\ q.pc = "done") =>
          /\ (q.c_nonce # NoNonce /\ q.tkn.tag = "Err") =>
                /\ q.resp.status = 400
                /\ q.resp.body = q.tkn.err /\ q.tkn.err \in ProviderErrors
                /\ q.verify_nonce = <<>>
          /\ (q.tkn.tag = "Ok" /\ q.claim.tag = "Err") => q.resp.status = 500
          /\ q.resp.status =
                IF q.c_nonce = NoNonce THEN 400
                ELSE IF q.tkn.tag # "Ok" THEN 400
                ELSE IF q.claim.tag # "Ok" THEN 500
                ELSE 302
          /\ q.c_nonce = NoNonce => q.n_get_token = 0
          /\ q.tkn.tag = "Ok" => (q.n_get_token = 1 /\ Len(q.verify_nonce) = 1)

\* A rejected code beside a failed verification.
C8_Witness ==
    \E r, p \in Rid :
       /\ IsCallback(reqs[r]) /\ reqs[r].pc = "done" /\ reqs[r].tkn.tag = "Err"
       /\ reqs[r].q_code # 0
       /\ IsCallback(reqs[p]) /\ reqs[p].pc = "done" /\ reqs[p].tkn.tag = "Ok"
       /\ reqs[p].claim.tag = "Err"

\* The handler's extractor ran for request r.
Extracted(q) == q.route = "app" /\ q.pc = "done" /\ q.extracted # ""

\* C9: failure modes of the mandatory accessor.  With ChallengeRequired attached
\* it fails the request with that challenge: a 302 whose Location and nonce
\* cookie are the issuer URL and nonce stored in the outcome.  With no outcome
\* attached it fails with 401 Unauthorized, no Location and no nonce cookie.
C9_MandatoryFailures ==
    \A r \in Rid :
       LET q == reqs[r] IN
       (Extracted(q) /\ q.accessor = "Authenticated") =>
          /\ q.ext.tag = "Err" =>
                /\ q.extracted = "Err"
                /\ q.resp.status = 302
                /\ q.resp.location = q.ext.err.issuer_url
                /\ q.resp.location.kind = "authorize"
                /\ q.resp.cookies.nonce.set
                /\ q.resp.cookies.nonce.value = q.ext.err.nonce
                /\ q.resp.cookies.nonce.path = "/"
          /\ q.ext.tag = "None" =>
                /\ q.extracted = "Err"
                /\ q.resp.status = 401
                /\ q.resp.body = "Unauthorized"
                /\ q.resp.location = NoUrl
                /\ ~q.resp.cookies.nonce.set

\* Both failure modes: behind the middleware with ChallengeRequired, and on a
\* route the middleware does not wrap.
C9_Witness ==
    \E r, p \in Rid :
       /\ Extracted(reqs[r]) /\ reqs[r].accessor = "Authenticated"
       /\ reqs[r].ext.tag = "Err"
       /\ Extracted(reqs[p]) /\ reqs[p].accessor = "Authenticated"
       /\ reqs[p].ext.tag = "None"

\* C10 as stated: extracting MaybeAuthenticated never fails the request,
\* whatever outcome is attached and also when none is.
C10_OptionalNeverFails ==
    \A r \in Rid :
       LET q == reqs[r] IN
       (Extracted(q) /\ q.accessor = "MaybeAuthenticated") => q.extracted = "Ok"

\* C10, amended: extracting MaybeAuthenticated succeeds whenever an outcome is
\* attached, Authenticated or ChallengeRequired, and the capsule projects to
\* identity-or-absence and identity-or-error; when no outcome is attached the
\* extraction fails the request with 401 Unauthorized.
C10_OptionalSucceedsWithOutcome ==
    \A r \in Rid :
       LET q == reqs[r] IN
       (Extracted(q) /\ q.accessor = "MaybeAuthenticated") =>
          /\ q.ext.tag = "Ok" =>
                /\ q.extracted = "Ok" /\ q.resp = HandlerOk
                /\ q.identity = q.ext.user
                /\ q.try_into = OkOutcome(q.ext.user)
          /\ q.ext.tag = "Err" =>
                /\ q.extracted = "Ok" /\ q.resp = HandlerOk
                /\ q.identity = NoUser
                /\ q.try_into = ErrOutcome(q.ext.err)
          /\ q.ext.tag = "None" =>
                /\ q.extracted = "Err"
                /\ q.resp.status = 401
                /\ q.resp.location = NoUrl

\* The three cases together cannot be in one request: ChallengeRequired in one
\* request, no outcome in the other.
C10_Witness ==
    \E r, p \in Rid :
       /\ Extracted(reqs[r]) /\ reqs[r].accessor = "MaybeAuthenticated"
       /\ reqs[r].ext.tag = "Err" /\ reqs[r].extracted = "Ok"
       /\ Extracted(reqs[p]) /\ reqs[p].accessor = "MaybeAuthenticated"
       /\ reqs[p].ext.tag = "None" /\ reqs[p].extracted = "Err"

\* C11: no caching and no retry: every request through the middleware that
\* carries an access_token cookie invokes the user-info lookup exactly once,
\* whatever earlier requests bearing the same token obtained; a request without
\* the cookie invokes it zero times; a failed lookup is not retried and the
\* request degrades to the not-authenticated handling (a challenge, attached
\* or returned, and no identity).
C11_OneLookupPerRequest ==
    \A r \in Rid :
       LET q == reqs[r] IN
       (q.route = "app" /\ q.mw) =>
          /\ q.n_user_info = (IF q.c_access = NoToken THEN 0 ELSE 1)
          /\ (q.c_access # NoToken /\ MwDecided(q)) => q.ui.tag # "None"
          /\ (MwDecided(q) /\ q.ui.tag = "Err") =>
                /\ q.identity = NoUser
                /\ IF q.should_auth
                   THEN ShortCircuited(q) /\ q.resp.status = 302
                   ELSE q.ext.tag = "Err" /\ q.ext.err.kind = "NotAuthenticated"

\* Two requests bear the same token: the first was authenticated by its lookup,
\* the second made its own lookup, which failed, and was challenged.
C11_Witness ==
    \E r, p \in Rid :
       /\ r < p
       /\ reqs[r].mw /\ reqs[p].mw
       /\ reqs[r].c_access # NoToken /\ reqs[p].c_access = reqs[r].c_access
       /\ reqs[r].pc = "done" /\ reqs[r].ui.tag = "Ok" /\ reqs[r].identity # NoUser
       /\ reqs[p].pc = "done" /\ reqs[p].ui.tag = "Err" /\ reqs[p].n_user_info = 1
       /\ reqs[p].resp.status = 302

\* C15: ordering: on every request that reaches the inner handler through the
\* middleware, exactly one outcome is attached to the request before the inner
\* handler starts, also when the middleware was suspended on the user-info
\* lookup in between: while it is suspended the inner handler has not started
\* and nothing is attached, the inner handler is started once, and an accessor
\* behind the middleware never finds the request without an outcome.
C15_OutcomeBeforeInner ==
    \A r \in Rid :
       LET q == reqs[r] IN
       (q.route = "app" /\ q.mw) =>
          /\ q.inner_calls <= 1
          /\ q.pc = "await_user_info" =>
                q.inner_calls = 0 /\ q.ext.tag = "None" /\ q.extracted = ""
          /\ (q.inner_calls = 1 \/ q.pc = "inner") =>
                q.inner_calls = 1 /\ q.ext.tag \in {"Ok", "Err"}
          /\ q.extracted # "" =>
                q.inner_calls = 1 /\ q.ext.tag \in {"Ok", "Err"} /\ q.resp.status # 401

\* A request was suspended on the lookup, the lookup failed on an optional
\* route, and the inner handler was started with the challenge attached.
C15_Witness ==
    \E r \in Rid :
       /\ reqs[r].mw /\ reqs[r].pc = "inner"
       /\ reqs[r].ui.tag = "Err" /\ reqs[r].n_user_info = 1
       /\ reqs[r].ext.tag = "Err" /\ reqs[r].inner_calls = 1

\* C17: atomic session cookies: every response of the callback handler either
\* sets all of access_token, id_token and user_info together, or sets none of
\* the session cookies, refresh_token included.
C17_SessionCookiesAllOrNone ==
    \A r \in Rid :
       LET q == reqs[r]
           c == q.resp.cookies
       IN  IsCallback(q) =>
              \/ c.access_token.set /\ c.id_token.set /\ c.user_info.set
              \/ ~ SetsSessionCookie(q.resp)

\* One callback succeeded and set the three cookies; another ended at the
\* verification and set none.
C17_Witness ==
    \E r, p \in Rid :
       /\ CallbackSucceeded(reqs[r])
       /\ reqs[r].resp.cookies.access_token.set
       /\ reqs[r].resp.cookies.id_token.set
       /\ reqs[r].resp.cookies.user_info.set
       /\ IsCallback(reqs[p]) /\ reqs[p].pc = "done" /\ reqs[p].claim.tag = "Err"
       /\ ~ SetsSessionCookie(reqs[p].resp)

\* C18: per request the middleware builds exactly one challenge (one call of
\* the authorization-URL builder, one nonce) when the outcome is not
\* Authenticated, whether the cookie was absent or the lookup failed and
\* whether the route is required or optional, and builds none when the outcome
\* is Authenticated; every challenge built is the one attached or returned.
C18_OneChallengePerRequest ==
    \A r \in Rid :
       LET q == reqs[r] IN
       MwDecided(q) =>
          /\ Len(q.built) = (IF LookupSucceeded(q) THEN 0 ELSE 1)
          /\ \A k \in 1..Len(q.built) :
                \/ q.ext = ErrOutcome(q.built[k])
                \/ ShortCircuited(q) /\ q.resp = error_response(q.built[k])

\* C12: the logout endpoint issues a redirect if and only if the request
\* carries an id_token cookie: without it the response is 400 with no Location
\* and no logout URI is requested; with it the response is a 302 to the logout
\* URI built from that token.  In neither case does the response set or clear
\* any cookie.
C12_LogoutRedirectIffCookie ==
    \A r \in Rid :
       LET q == reqs[r] IN
       (q.route = "logout" /\ q.pc # "idle") =>
          /\ q.resp.cookies = NoCookies
          /\ IF q.c_id_token = <<>>
             THEN /\ q.resp.status = 400
                  /\ q.resp.location = NoUrl
                  /\ q.n_logout_uri = 0
             ELSE /\ q.resp.status = 302
                  /\ q.n_logout_uri = 1
                  /\ q.resp.location = get_logout_uri(IdTokenFromStr(q.c_id_token).t)

\* What the middleware decided for a request: the kind of outcome, the
\* identity in it, and whether the inner service was called.
Decision(q) == <<q.ext.tag, q.ext.user, q.inner_calls>>

\* C20: the middleware's decision depends only on the access_token cookie, the
\* result of the user-info lookup and requiresAuth: two requests that agree on
\* these and differ in their id_token, user_info, refresh_token or nonce
\* cookies get the same kind of outcome, the same identity and the same
\* short-circuit or continue decision; the identity an accessor yields is the
\* one the lookup returned for the access token, never one a client put into
\* the user_info cookie.
C20_DecisionIgnoresOtherCookies ==
    /\ \A r, p \in Rid :
          LET q == reqs[r]
              w == reqs[p]
          IN  (/\ MwDecided(q) /\ MwDecided(w)
               /\ q.c_access = w.c_access /\ q.ui = w.ui
               /\ q.should_auth = w.should_auth)
              => Decision(q) = Decision(w)
    /\ \A r \in Rid :
          LET q == reqs[r] IN
          (MwDecided(q) /\ (q.ext.tag = "Ok" \/ q.identity # NoUser)) =>
             /\ q.ui.tag = "Ok"
             /\ q.ext.user = ClaimsOf(q.c_access)
             /\ q.identity \in {NoUser, ClaimsOf(q.c_access)}

\* Two requests with the same access token and the same failed lookup on an
\* optional route, one of them carrying forged cookies naming another
\* identity, were both served with ChallengeRequired and no identity.
C20_Witness ==
    \E r, p \in Rid :
       /\ reqs[r].c_access = "t1" /\ reqs[p].c_access = "t1"
       /\ reqs[r].c_user_info = <<>> /\ reqs[p].c_user_info = <<"json", "u2">>
       /\ reqs[r].ui.tag = "Err" /\ reqs[p].ui.tag = "Err"
       /\ reqs[r].pc = "done" /\ reqs[p].pc = "done"
       /\ reqs[r].extracted = "Ok" /\ reqs[p].extracted = "Ok"
       /\ reqs[p].identity = NoUser

\* The challenge responses among the first n responses the browser received.
ChallengesSeen(n) ==
    SelectSeq(SubSeq(client.seen, 1, n), LAMBDA r : reqs[r].resp.cookies.nonce.set)

\* The nonce the browser holds after the first n responses it received: that
\* of the authorization URL of the challenge delivered last.
StoredNonce(n) ==
    IF ChallengesSeen(n) = <<>> THEN NoNonce
    ELSE reqs[Last(ChallengesSeen(n))].resp.location.nonce

\* C13: one outstanding challenge per client: when several challenge responses
\* are delivered to one browser, from concurrently processed requests in any
\* interleaving, each overwrites the nonce cookie, so the browser holds one
\* nonce, that of the challenge delivered last; a callback completing an
\* earlier (overwritten) challenge presents the stored nonce and fails ID-token
\* verification; only a callback for the challenge whose nonce is stored can
\* succeed.
C13_OneOutstandingChallenge ==
    /\ client.jar.nonce = StoredNonce(Len(client.seen))
    /\ \A p \in FlowRid :
          LET q == reqs[p] IN
          IsCallback(q) =>
             /\ q.c_nonce = StoredNonce(q.sent_after)
             /\ (q.q_code # q.c_nonce /\ q.pc = "done" /\ q.tkn.tag = "Ok") =>
                   /\ q.claim.tag = "Err"
                   /\ q.resp.status = 500
                   /\ ~ SetsSessionCookie(q.resp)
             /\ CallbackSucceeded(q) => q.q_code = q.c_nonce

\* Two challenges with different nonces were delivered, and the callback for
\* the one delivered first, sent afterwards, failed ID-token verification.
C13_Witness ==
    \E r, w, p \in FlowRid :
       /\ Len(client.seen) >= 2 /\ client.seen[1] = r /\ client.seen[2] = w
       /\ reqs[r].resp.cookies.nonce.set /\ reqs[w].resp.cookies.nonce.set
       /\ reqs[r].resp.cookies.nonce.value # reqs[w].resp.cookies.nonce.value
       /\ IsCallback(reqs[p]) /\ reqs[p].via = r /\ reqs[p].sent_after >= 2
       /\ reqs[p].pc = "done" /\ reqs[p].claim.tag = "Err"

\* Response r had reached the browser when it sent request p.
ReceivedBefore(r, p) ==
    \E i \in 1..reqs[p].sent_after : client.seen[i] = r

\* C14: replay: after a callback has succeeded with nonce cookie N, a callback
\* sent again with the stale nonce cookie N does not succeed: if its code is
\* exchanged it fails ID-token verification, and it sets no session cookies;
\* one nonce is consumed per callback.
C14_ReplayFails ==
    \A r, p \in FlowRid :
       (/\ CallbackSucceeded(reqs[r])
        /\ IsCallback(reqs[p]) /\ reqs[p].pc = "done"
        /\ ReceivedBefore(r, p)
        /\ reqs[p].c_nonce = reqs[r].c_nonce)
       => /\ reqs[p].tkn.tag = "Ok" => reqs[p].claim.tag = "Err"
          /\ ~ SetsSessionCookie(reqs[p].resp)

\* C19: resume-target round trip: a challenge is built with the path of the
\* request that caused it as `state`; the callback that completes it carries
\* that state and, when it succeeds, redirects to it unchanged: the browser
\* that followed the challenge issued for path P is redirected to exactly P.
C19_ResumeTargetRoundTrip ==
    /\ \A r \in FlowRid : \A k \in 1..Len(reqs[r].built) :
          reqs[r].built[k].issuer_url.path = reqs[r].path
    /\ \A p \in FlowRid :
          LET q == reqs[p] IN
          IsCallback(q) =>
             /\ q.via # 0
             /\ q.q_state = reqs[q.via].path
             /\ CallbackSucceeded(q) => q.resp.location = LocalUrl(reqs[q.via].path)
    /\ \A p \in FlowRid :
          LET q == reqs[p] IN
          (q.route = "app" /\ q.via # 0) => q.path = reqs[reqs[q.via].via].path

\* The browser opened /b without cookies, was challenged by the mandatory
\* accessor, completed the callback and was sent back to /b.
C19_Witness ==
    \E r, p, w \in FlowRid :
       /\ reqs[r].route = "app" /\ reqs[r].path = "/b" /\ reqs[r].via = 0
       /\ reqs[p].via = r /\ CallbackSucceeded(reqs[p])
       /\ reqs[p].resp.location = LocalUrl("/b")
       /\ reqs[w].via = p /\ reqs[w].route = "app" /\ reqs[w].path = "/b"

\* The provider did not cooperate: it rejected a code, returned an ID token
\* that does not verify, or rejected the access token at user-info.
ProviderFailed ==
    \E r \in FlowRid :
       \/ reqs[r].tkn.tag = "Err"
       \/ reqs[r].claim.tag = "Err"
       \/ reqs[r].ui.tag = "Err"

\* A request reached the inner handler with the outcome Authenticated.
Recovered ==
    \E r \in FlowRid :
       /\ reqs[r].route = "app" /\ reqs[r].mw
       /\ reqs[r].inner_calls = 1 /\ reqs[r].ext.tag = "Ok"

\* C16: ChallengeRequired is always recoverable: a browser that starts with no
\* cookies, requests a route that requires authentication and follows every
\* redirect, against a provider that accepts the code it issued, returns an
\* ID token bound to the nonce of the challenge and accepts the resulting
\* access token at user-info, eventually has a request reach the inner
\* handler with the outcome Authenticated.
C16_ChallengeRecoverable ==
    (\E r \in FlowRid : /\ reqs[r].route = "app" /\ reqs[r].via = 0
                        /\ reqs[r].should_auth /\ reqs[r].c_access = NoToken)
    ~> (Recovered \/ ProviderFailed)

\* The browser was challenged on /a, completed the callback, followed the
\* redirect back to /a and that request reached the inner handler with the
\* identity, no call of the provider having failed.
C16_Witness ==
    /\ ~ ProviderFailed
    /\ \E r, p, w \in FlowRid :
          /\ reqs[r].route = "app" /\ reqs[r].via = 0 /\ reqs[r].should_auth
          /\ reqs[r].c_access = NoToken /\ reqs[r].resp.status = 302
          /\ reqs[p].via = r /\ CallbackSucceeded(reqs[p])
          /\ reqs[w].via = p /\ reqs[w].path = reqs[r].path
          /\ reqs[w].inner_calls = 1 /\ reqs[w].ext.tag = "Ok"

====
